---- MODULE Spec2Model ----
(***************************************************************************)
(* Model of cumulants_dist.py: the three moment orchestrators              *)
(* moment1_dist, prod_m2_x_dist and whiten_m3_dist, run by NWorkers        *)
(* worker processes on the same arguments.                                 *)
(*                                                                         *)
(* Every orchestrator obtains its store with mx.kvstore.create('local'):   *)
(* a store private to the calling process, whose rank is 0 and whose push  *)
(* (no updater is set) assigns the pushed value to the key.  The module    *)
(* level KVSTORE = create('dist') is never used by any function.           *)
(*                                                                         *)
(* Numbers are exact rationals <<numerator, denominator>> in lowest terms  *)
(* with a positive denominator; floating-point rounding is not modelled.   *)
(* Vectors are sequences of rationals, matrices sequences of rows.         *)
(***************************************************************************)
EXTENDS Integers, Sequences, FiniteSets, TLC

\* ------------------------------------------------------------------ bounds
NWorkers == 2
MaxDocs == 3

\* ------------------------------------------------------- program constants
KEY_M1 == 100
KEY_PROD_M2X == 110
KEY_WHITENED_E3 == 120
KEY_WHITENED_E2M1 == 130

Workers == 1..NWorkers
\* Python's None; every tensor of the model is a non-empty sequence
None == <<>>

\* ------------------------------------------------------ rational arithmetic
Abs(x) == IF x < 0 THEN -x ELSE x

\* operands are evaluated once, as the operands of a Python expression are
RECURSIVE GCD(_, _)
GCD(a, b) == LET gcd[x \in Nat, y \in Nat] == IF y = 0 THEN x ELSE GCD(y, x % y)
             IN  gcd[a, b]

\* a rational in lowest terms; d > 0
Norm(n, d) == LET norm[x \in Int, y \in Nat] ==
                      LET g == GCD(Abs(x), y) IN <<x \div g, y \div g>>
              IN  norm[n, d]

Rat == Int \X Nat
RInt(i) == <<i, 1>>
RAdd(a, b) == LET add[x \in Rat, y \in Rat] == Norm(x[1] * y[2] + y[1] * x[2], x[2] * y[2])
              IN  add[a, b]
RSub(a, b) == LET sub[x \in Rat, y \in Rat] == Norm(x[1] * y[2] - y[1] * x[2], x[2] * y[2])
              IN  sub[a, b]
RMul(a, b) == LET mul[x \in Rat, y \in Rat] == Norm(x[1] * y[1], x[2] * y[2])
              IN  mul[a, b]
\* a / b for b > 0
RDiv(a, b) == LET div[x \in Rat, y \in Rat] == Norm(x[1] * y[2], x[2] * y[1])
              IN  div[a, b]

RECURSIVE RSum(_)
RSum(s) == IF s = <<>> THEN RInt(0) ELSE RAdd(s[1], RSum(Tail(s)))

\* ------------------------------------------------------------ numpy helpers
\* mx.nd.zeros((n,)) and mx.nd.zeros((n, m))
zeros1(n) == [i \in 1..n |-> RInt(0)]
zeros2(n, m) == [i \in 1..n |-> [j \in 1..m |-> RInt(0)]]

\* u.dot(x) for a length-n vector u and an n-by-k matrix x
dot(u, x, k) == [j \in 1..k |-> RSum([i \in 1..Len(u) |-> RMul(u[i], x[i][j])])]

\* np.outer(u, v)
outer(u, v) == [i \in 1..Len(u) |-> [j \in 1..Len(v) |-> RMul(u[i], v[j])]]

\* elementwise a - c * b on matrices
MatAxpy(a, c, b) ==
    [i \in 1..Len(a) |-> [j \in 1..Len(a[i]) |-> RSub(a[i][j], RMul(c, b[i][j]))]]

\* elementwise a + c * b on matrices
MatAdd(a, c, b) ==
    [i \in 1..Len(a) |-> [j \in 1..Len(a[i]) |-> RAdd(a[i][j], RMul(c, b[i][j]))]]

\* np.einsum('i,j,k->ijk', u, v, w).reshape((k, -1)): column (j-1)*k + l
cube(u, v, w, k) ==
    [i \in 1..k |-> [c \in 1..(k * k) |->
        RMul(u[i], RMul(v[((c - 1) \div k) + 1], w[((c - 1) % k) + 1]))]]

\* ------------------------------------------- collaborators (cumulants.py,
\* partitioned_data.py): matrices carry their shape as numpy arrays do

\* equal_partitions(n, p): p half-open ranges covering [0, n), the remainder
\* rows in the last one
equal_partitions(n, p) ==
    IF p < 1 THEN <<>>
    ELSE [i \in 1..p |-> <<(i - 1) * (n \div p), IF i = p THEN n ELSE i * (n \div p)>>]

\* pload(docs, start, end): rows start..end-1 of the collection
pload(docs, start, end) ==
    [shape |-> <<end - start, docs.shape[2]>>, rows |-> SubSeq(docs.rows, start + 1, end)]

\* row r of a partition as a vector of rationals
RowOf(part, r) == [j \in 1..part.shape[2] |-> RInt(part.rows[r][j])]

\* contrib_m1(docs, n_docs): column sums over n_docs
contrib_m1(part, n_docs) ==
    [j \in 1..part.shape[2] |->
        RDiv(RSum([r \in 1..part.shape[1] |-> RInt(part.rows[r][j])]), RInt(n_docs))]

\* contrib_prod_e2_x(docs, test_x, n_docs): sum over the rows x of
\* outer(x, x.dot(test_x)), over n_docs
contrib_prod_e2_x(part, test_x, n_docs) ==
    LET k == test_x.shape[2]
        y(r) == dot(RowOf(part, r), test_x.rows, k)
    IN  [i \in 1..part.shape[2] |-> [j \in 1..k |->
            RDiv(RSum([r \in 1..part.shape[1] |-> RMul(RInt(part.rows[r][i]), y(r)[j])]),
                 RInt(n_docs))]]

\* contrib_whiten_e3(docs, whn, n_docs): sum over the rows x of the cube of
\* x.dot(whn), unfolded k by k^2, over n_docs
contrib_whiten_e3(part, whn, n_docs) ==
    LET k == whn.shape[2]
        y(r) == dot(RowOf(part, r), whn.rows, k)
    IN  [i \in 1..k |-> [c \in 1..(k * k) |->
            RDiv(RSum([r \in 1..part.shape[1] |-> cube(y(r), y(r), y(r), k)[i][c]]),
                 RInt(n_docs))]]

\* contrib_whiten_e2m1(docs, docs_m1, whn, n_docs): sum over the rows x of the
\* three cross terms of x.dot(whn) (twice) with docs_m1.dot(whn), over n_docs
contrib_whiten_e2m1(part, docs_m1, whn, n_docs) ==
    LET k == whn.shape[2]
        y(r) == dot(RowOf(part, r), whn.rows, k)
        z == dot(docs_m1, whn.rows, k)
    IN  [i \in 1..k |-> [c \in 1..(k * k) |->
            RDiv(RSum([r \in 1..part.shape[1] |->
                        RAdd(cube(y(r), y(r), z, k)[i][c],
                             RAdd(cube(y(r), z, y(r), k)[i][c],
                                  cube(z, y(r), y(r), k)[i][c]))]),
                 RInt(n_docs))]]

\* nth(iterable, n, default): the nth item or the default
nth(iterable, n, default) == IF n + 1 <= Len(iterable) THEN iterable[n + 1] ELSE default

\* ------------------------------------------------ closed-form adjustments
\* adjust of prod_m2_x_dist
prod_m2_x_adjust(prod_e2x, m1, test_x, alpha0) ==
    LET adj == outer(m1, dot(m1, test_x.rows, test_x.shape[2]))
    IN  MatAxpy(prod_e2x, RDiv(RInt(alpha0), RInt(alpha0 + 1)), adj)

\* adjust of whiten_m3_dist
whiten_m3_adjust(whitened_e3, whitened_e2m1, m1, whn, alpha0) ==
    LET num_factors == whn.shape[2]
        whitened_m1 == dot(m1, whn.rows, num_factors)
        whitened_m1_3 == cube(whitened_m1, whitened_m1, whitened_m1, num_factors)
        coeff1 == RDiv(RInt(alpha0), RInt(alpha0 + 2))
        coeff2 == RDiv(RDiv(RInt(2 * alpha0 * alpha0), RInt(alpha0 + 1)), RInt(alpha0 + 2))
    IN  MatAdd(MatAxpy(whitened_e3, coeff1, whitened_e2m1), coeff2, whitened_m1_3)

\* ------------------------------------------------------ the 'local' KVStore
\* mx.kvstore.create('local'): a new, empty store owned by the caller
kv_create == [open |-> TRUE, data |-> [k \in {} |-> None]]

\* a rank that tells the worker processes apart
kv_rank_per_worker(w) == w - 1

\* kvstore.rank of a local store
kv_rank(w) == 0

\* kvstore.init(key, value)
kv_init(st, key, value) ==
    [st EXCEPT !.data = [k \in DOMAIN st.data \cup {key} |->
                            IF k = key THEN value ELSE st.data[k]]]

\* kvstore.push(key, value): without an updater the pushed value is stored
kv_push(st, key, value) == [st EXCEPT !.data[key] = value]

\* kvstore.pull(key, out=...): the stored value, at once
kv_pull(st, key) == st.data[key]

\* kvstore.close()
kv_close(st) == [st EXCEPT !.open = FALSE]

\* ------------------------------------------------------------------ inputs
\* the vocabulary of the collections, and the first dimensions and lengths
\* the matrix and the supplied first moment are tried with
VocabSizes == {2}
Lengths == {1, 2}
Entries == {RInt(1)}
Factors == {0, 1}
AlphaSet == {0, 1}
\* a call and its repetition
Calls == {1, 2}

\* the collection of n documents over v words: document i holds word 1 i times
\* and every other word once
Collection(n, v) ==
    [shape |-> <<n, v>>, rows |-> [i \in 1..n |-> [j \in 1..v |-> IF j = 1 THEN i ELSE 1]]]

DocsSet == {Collection(n, v) : n \in 0..MaxDocs, v \in VocabSizes}

\* the test / whitening matrices
MatSet ==
    UNION {{[shape |-> <<v, k>>, rows |-> r] : r \in [1..v -> [1..k -> Entries]]} :
            <<v, k>> \in Lengths \X Factors}

\* a supplied first moment
M1Set == {None} \cup {[j \in 1..v |-> <<1, 2>>] : v \in Lengths}

ArgSet ==
    {[func |-> "moment1_dist", docs |-> d, n_partitions |-> p,
      mat |-> None, alpha0 |-> 0, docs_m1 |-> None] :
        <<d, p>> \in DocsSet \X (0..(MaxDocs + 1))}
    \cup
    [func : {"prod_m2_x_dist", "whiten_m3_dist"}, docs : DocsSet,
     n_partitions : 0..(MaxDocs + 1), mat : MatSet, alpha0 : AlphaSet, docs_m1 : M1Set]

\* ------------------------------------------------------------------- state
VARIABLES
    args,              \* the arguments every worker calls the orchestrator with
    pc,                \* pc[w]: where worker w stands in the code
    stores,            \* stores[w]: the KVStores worker w has created, in order
    ops,               \* ops[w]: the store operations worker w has issued
    docs_m1,           \* the local docs_m1 of prod_m2_x_dist / whiten_m3_dist
    m1_mx,             \* the out buffers of the pulls
    prod_e2x_mx,
    whitened_e3_mx,
    whitened_e2m1_mx,
    results,           \* results[w]: what each finished call returned or raised
    start_end          \* the local start, end: the range of the loaded partition

vars == <<args, pc, stores, ops, docs_m1, m1_mx, prod_e2x_mx, whitened_e3_mx,
          whitened_e2m1_mx, results, start_end>>

n_docs == args.docs.shape[1]
vocab_size == args.docs.shape[2]
\* the store bound to the local variable kvstore of worker w
kvstore(w) == Len(stores[w])
\* the number of the call worker w is in
call(w) == Len(results[w]) + 1

Init ==
    /\ args \in ArgSet
    /\ pc = [w \in Workers |-> "idle"]
    /\ stores = [w \in Workers |-> <<>>]
    /\ ops = [w \in Workers |-> <<>>]
    /\ docs_m1 = [w \in Workers |-> None]
    /\ m1_mx = [w \in Workers |-> None]
    /\ prod_e2x_mx = [w \in Workers |-> None]
    /\ whitened_e3_mx = [w \in Workers |-> None]
    /\ whitened_e2m1_mx = [w \in Workers |-> None]
    /\ results = [w \in Workers |-> <<>>]
    /\ start_end = [w \in Workers |-> None]

Op(w, o, key) == [op |-> o, store |-> kvstore(w), key |-> key, call |-> call(w)]

\* the call of worker w ends: its locals are dropped
Finish(w, kind, val) ==
    /\ results' = [results EXCEPT ![w] = Append(@, [kind |-> kind, val |-> val])]
    /\ pc' = [pc EXCEPT ![w] = "idle"]
    /\ docs_m1' = [docs_m1 EXCEPT ![w] = None]
    /\ m1_mx' = [m1_mx EXCEPT ![w] = None]
    /\ prod_e2x_mx' = [prod_e2x_mx EXCEPT ![w] = None]
    /\ whitened_e3_mx' = [whitened_e3_mx EXCEPT ![w] = None]
    /\ whitened_e2m1_mx' = [whitened_e2m1_mx EXCEPT ![w] = None]
    /\ start_end' = [start_end EXCEPT ![w] = None]

\* an exception leaves the call; nothing is closed on the way out
Raise(w, e) == Finish(w, e, None) /\ UNCHANGED <<stores, ops>>

Entered(w, f) == pc[w] = "idle" /\ args.func = f /\ call(w) \in Calls

\* ----------------------------------------------------------- moment1_dist
\* lines 38-40
moment1_dist_asserts ==
    /\ n_docs >= 1 /\ vocab_size >= 1
    /\ args.n_partitions >= 1 /\ args.n_partitions <= n_docs

\* lines 38-40, on a call from outside or from prod_m2_x_dist / whiten_m3_dist
moment1_dist_Check(w) ==
    /\ Entered(w, "moment1_dist") \/ pc[w] = "m1_check"
    /\ IF moment1_dist_asserts
       THEN /\ pc' = [pc EXCEPT ![w] = "m1_init"]
            /\ UNCHANGED <<stores, ops, docs_m1, m1_mx, prod_e2x_mx, whitened_e3_mx,
                           whitened_e2m1_mx, results, start_end>>
       ELSE Raise(w, "AssertionError")
    /\ UNCHANGED args

\* moment1_dist keeping one store for the life of the process instead of
\* creating one per call: the key keeps what the last call left in it
moment1_dist_InitKVStore_kept(w) ==
    /\ pc[w] = "m1_init"
    /\ LET zero == zeros1(vocab_size)
           prev == {s \in 1..Len(stores[w]) : KEY_M1 \in DOMAIN stores[w][s].data}
           last == CHOOSE s \in prev : \A t \in prev : t <= s
       IN  /\ stores' = [stores EXCEPT ![w] =
                 Append(@, IF prev = {} THEN kv_init(kv_create, KEY_M1, zero)
                           ELSE [stores[w][last] EXCEPT !.open = TRUE])]
           /\ m1_mx' = [m1_mx EXCEPT ![w] = zero]
    /\ ops' = [ops EXCEPT ![w] = @ \o <<[Op(w, "create", 0) EXCEPT !.store = @ + 1],
                                       [Op(w, "init", KEY_M1) EXCEPT !.store = @ + 1]>>]
    /\ pc' = [pc EXCEPT ![w] = "m1_push"]
    /\ UNCHANGED <<args, docs_m1, prod_e2x_mx, whitened_e3_mx, whitened_e2m1_mx, results, start_end>>

\* lines 42-44
moment1_dist_InitKVStore(w) ==
    /\ pc[w] = "m1_init"
    /\ LET zero == zeros1(vocab_size)
       IN  /\ stores' = [stores EXCEPT ![w] = Append(@, kv_init(kv_create, KEY_M1, zero))]
           /\ m1_mx' = [m1_mx EXCEPT ![w] = zero]
    /\ ops' = [ops EXCEPT ![w] = @ \o <<[Op(w, "create", 0) EXCEPT !.store = @ + 1],
                                       [Op(w, "init", KEY_M1) EXCEPT !.store = @ + 1]>>]
    /\ pc' = [pc EXCEPT ![w] = "m1_push"]
    /\ UNCHANGED <<args, docs_m1, prod_e2x_mx, whitened_e3_mx, whitened_e2m1_mx, results, start_end>>

\* lines 46-49
moment1_dist_Push(w) ==
    /\ pc[w] = "m1_push"
    /\ LET range == nth(equal_partitions(n_docs, args.n_partitions), kv_rank(w), None)
       IN  IF range = None
           THEN Raise(w, "TypeError")
           ELSE LET curr_partition == pload(args.docs, range[1], range[2])
                    contrib == contrib_m1(curr_partition, n_docs)
                IN  /\ stores' = [stores EXCEPT ![w][kvstore(w)] = kv_push(@, KEY_M1, contrib)]
                    /\ ops' = [ops EXCEPT ![w] = Append(@, Op(w, "push", KEY_M1))]
                    /\ pc' = [pc EXCEPT ![w] = "m1_pull"]
                    /\ start_end' = [start_end EXCEPT ![w] = range]
                    /\ UNCHANGED <<docs_m1, m1_mx, prod_e2x_mx, whitened_e3_mx,
                                   whitened_e2m1_mx, results>>
    /\ UNCHANGED args

\* a pull that does not wait and reads the sum of what has been pushed so far
\* by the workers that are between their push and their close
moment1_dist_Pull_partial(w) ==
    /\ pc[w] = "m1_pull"
    /\ m1_mx' = [m1_mx EXCEPT ![w] =
          [j \in 1..vocab_size |->
              RSum([v \in 1..NWorkers |->
                      IF pc[v] \in {"m1_pull", "m1_close"}
                      THEN stores[v][kvstore(v)].data[KEY_M1][j] ELSE RInt(0)])]]
    /\ ops' = [ops EXCEPT ![w] = Append(@, Op(w, "pull", KEY_M1))]
    /\ pc' = [pc EXCEPT ![w] = "m1_close"]
    /\ UNCHANGED <<args, stores, docs_m1, prod_e2x_mx, whitened_e3_mx, whitened_e2m1_mx,
                   results, start_end>>

\* line 51
moment1_dist_Pull(w) ==
    /\ pc[w] = "m1_pull"
    /\ m1_mx' = [m1_mx EXCEPT ![w] = kv_pull(stores[w][kvstore(w)], KEY_M1)]
    /\ ops' = [ops EXCEPT ![w] = Append(@, Op(w, "pull", KEY_M1))]
    /\ pc' = [pc EXCEPT ![w] = "m1_close"]
    /\ UNCHANGED <<args, stores, docs_m1, prod_e2x_mx, whitened_e3_mx, whitened_e2m1_mx,
                   results, start_end>>

\* moment1_dist returning without line 52
moment1_dist_Close_no_close(w) ==
    /\ pc[w] = "m1_close"
    /\ IF args.func = "moment1_dist"
       THEN Finish(w, "ok", m1_mx[w])
       ELSE /\ docs_m1' = [docs_m1 EXCEPT ![w] = m1_mx[w]]
            /\ m1_mx' = [m1_mx EXCEPT ![w] = None]
            /\ pc' = [pc EXCEPT ![w] = IF args.func = "prod_m2_x_dist"
                                       THEN "prod_init" ELSE "whiten_init"]
            /\ start_end' = [start_end EXCEPT ![w] = None]
            /\ UNCHANGED <<prod_e2x_mx, whitened_e3_mx, whitened_e2m1_mx, results>>
    /\ UNCHANGED <<args, stores, ops>>

\* lines 52-53; the value goes to the caller
moment1_dist_Close(w) ==
    /\ pc[w] = "m1_close"
    /\ stores' = [stores EXCEPT ![w][kvstore(w)] = kv_close(@)]
    /\ ops' = [ops EXCEPT ![w] = Append(@, Op(w, "close", 0))]
    /\ IF args.func = "moment1_dist"
       THEN Finish(w, "ok", m1_mx[w])
       ELSE /\ docs_m1' = [docs_m1 EXCEPT ![w] = m1_mx[w]]
            /\ m1_mx' = [m1_mx EXCEPT ![w] = None]
            /\ pc' = [pc EXCEPT ![w] = IF args.func = "prod_m2_x_dist"
                                       THEN "prod_init" ELSE "whiten_init"]
            /\ start_end' = [start_end EXCEPT ![w] = None]
            /\ UNCHANGED <<prod_e2x_mx, whitened_e3_mx, whitened_e2m1_mx, results>>
    /\ UNCHANGED args

\* --------------------------------------------------------- prod_m2_x_dist
\* prod_m2_x_dist without the check of alpha0 at line 88
prod_m2_x_dist_asserts_no_alpha0 ==
    /\ n_docs >= 1 /\ vocab_size >= 1
    /\ args.n_partitions >= 1 /\ args.n_partitions <= n_docs
    /\ vocab_size = args.mat.shape[1] /\ args.mat.shape[2] >= 1
    /\ (args.docs_m1 # None => vocab_size = Len(args.docs_m1))

\* lines 81-88
prod_m2_x_dist_asserts ==
    LET _vocab_size == args.mat.shape[1]
        num_factors == args.mat.shape[2]
    IN  /\ n_docs >= 1 /\ vocab_size >= 1
        /\ args.n_partitions >= 1 /\ args.n_partitions <= n_docs
        /\ vocab_size = _vocab_size /\ num_factors >= 1
        /\ (args.docs_m1 # None => vocab_size = Len(args.docs_m1))
        /\ args.alpha0 > 0

\* prod_m2_x_dist computing the first moment whether or not one is supplied
prod_m2_x_dist_Check_recompute(w) ==
    /\ Entered(w, "prod_m2_x_dist")
    /\ IF prod_m2_x_dist_asserts
       THEN /\ docs_m1' = [docs_m1 EXCEPT ![w] = args.docs_m1]
            /\ pc' = [pc EXCEPT ![w] = "m1_check"]
            /\ UNCHANGED <<stores, ops, m1_mx, prod_e2x_mx, whitened_e3_mx,
                           whitened_e2m1_mx, results, start_end>>
       ELSE Raise(w, "AssertionError")
    /\ UNCHANGED args

\* lines 81-92
prod_m2_x_dist_Check(w) ==
    /\ Entered(w, "prod_m2_x_dist")
    /\ IF prod_m2_x_dist_asserts
       THEN /\ docs_m1' = [docs_m1 EXCEPT ![w] = args.docs_m1]
            /\ pc' = [pc EXCEPT ![w] = IF args.docs_m1 = None
                                       THEN "m1_check" ELSE "prod_init"]
            /\ UNCHANGED <<stores, ops, m1_mx, prod_e2x_mx, whitened_e3_mx,
                           whitened_e2m1_mx, results, start_end>>
       ELSE Raise(w, "AssertionError")
    /\ UNCHANGED args

\* lines 95-97
prod_m2_x_dist_InitKVStore(w) ==
    /\ pc[w] = "prod_init"
    /\ LET zero == zeros2(vocab_size, args.mat.shape[2])
       IN  /\ stores' = [stores EXCEPT ![w] =
                            Append(@, kv_init(kv_create, KEY_PROD_M2X, zero))]
           /\ prod_e2x_mx' = [prod_e2x_mx EXCEPT ![w] = zero]
    /\ ops' = [ops EXCEPT ![w] = @ \o <<[Op(w, "create", 0) EXCEPT !.store = @ + 1],
                                       [Op(w, "init", KEY_PROD_M2X) EXCEPT !.store = @ + 1]>>]
    /\ pc' = [pc EXCEPT ![w] = "prod_push"]
    /\ UNCHANGED <<args, docs_m1, m1_mx, whitened_e3_mx, whitened_e2m1_mx, results, start_end>>

\* lines 100-103
prod_m2_x_dist_Push(w) ==
    /\ pc[w] = "prod_push"
    /\ LET range == nth(equal_partitions(n_docs, args.n_partitions), kv_rank(w), None)
       IN  IF range = None
           THEN Raise(w, "TypeError")
           ELSE LET curr_partition == pload(args.docs, range[1], range[2])
                    contrib == contrib_prod_e2_x(curr_partition, args.mat, n_docs)
                IN  /\ stores' = [stores EXCEPT ![w][kvstore(w)] =
                                     kv_push(@, KEY_PROD_M2X, contrib)]
                    /\ ops' = [ops EXCEPT ![w] = Append(@, Op(w, "push", KEY_PROD_M2X))]
                    /\ pc' = [pc EXCEPT ![w] = "prod_pull"]
                    /\ start_end' = [start_end EXCEPT ![w] = range]
                    /\ UNCHANGED <<docs_m1, m1_mx, prod_e2x_mx, whitened_e3_mx,
                                   whitened_e2m1_mx, results>>
    /\ UNCHANGED args

\* line 106
prod_m2_x_dist_Pull(w) ==
    /\ pc[w] = "prod_pull"
    /\ prod_e2x_mx' = [prod_e2x_mx EXCEPT ![w] = kv_pull(stores[w][kvstore(w)], KEY_PROD_M2X)]
    /\ ops' = [ops EXCEPT ![w] = Append(@, Op(w, "pull", KEY_PROD_M2X))]
    /\ pc' = [pc EXCEPT ![w] = "prod_close"]
    /\ UNCHANGED <<args, stores, docs_m1, m1_mx, whitened_e3_mx, whitened_e2m1_mx, results, start_end>>

\* prod_m2_x_dist without line 107
prod_m2_x_dist_Close_no_close(w) ==
    /\ pc[w] = "prod_close"
    /\ pc' = [pc EXCEPT ![w] = "prod_return"]
    /\ UNCHANGED <<args, stores, ops, docs_m1, m1_mx, prod_e2x_mx, whitened_e3_mx,
                   whitened_e2m1_mx, results, start_end>>

\* line 107
prod_m2_x_dist_Close(w) ==
    /\ pc[w] = "prod_close"
    /\ stores' = [stores EXCEPT ![w][kvstore(w)] = kv_close(@)]
    /\ ops' = [ops EXCEPT ![w] = Append(@, Op(w, "close", 0))]
    /\ pc' = [pc EXCEPT ![w] = "prod_return"]
    /\ UNCHANGED <<args, docs_m1, m1_mx, prod_e2x_mx, whitened_e3_mx, whitened_e2m1_mx,
                   results, start_end>>

\* line 109
prod_m2_x_dist_Return(w) ==
    /\ pc[w] = "prod_return"
    /\ Finish(w, "ok", prod_m2_x_adjust(prod_e2x_mx[w], docs_m1[w], args.mat, args.alpha0))
    /\ UNCHANGED <<args, stores, ops>>

\* --------------------------------------------------------- whiten_m3_dist
\* lines 145-152
whiten_m3_dist_asserts ==
    LET _vocab_size == args.mat.shape[1]
        num_factors == args.mat.shape[2]
    IN  /\ n_docs >= 1 /\ vocab_size >= 1
        /\ args.n_partitions <= n_docs
        /\ vocab_size = _vocab_size /\ num_factors >= 1
        /\ (args.docs_m1 # None => vocab_size = Len(args.docs_m1))
        /\ args.alpha0 > 0

\* lines 145-156
whiten_m3_dist_Check(w) ==
    /\ Entered(w, "whiten_m3_dist")
    /\ IF whiten_m3_dist_asserts
       THEN /\ docs_m1' = [docs_m1 EXCEPT ![w] = args.docs_m1]
            /\ pc' = [pc EXCEPT ![w] = IF args.docs_m1 = None
                                       THEN "m1_check" ELSE "whiten_init"]
            /\ UNCHANGED <<stores, ops, m1_mx, prod_e2x_mx, whitened_e3_mx,
                           whitened_e2m1_mx, results, start_end>>
       ELSE Raise(w, "AssertionError")
    /\ UNCHANGED args

\* lines 159-163
whiten_m3_dist_InitKVStore(w) ==
    /\ pc[w] = "whiten_init"
    /\ LET num_factors == args.mat.shape[2]
           zero == zeros2(num_factors, num_factors * num_factors)
       IN  /\ stores' = [stores EXCEPT ![w] =
                 Append(@, kv_init(kv_init(kv_create, KEY_WHITENED_E3, zero),
                                   KEY_WHITENED_E2M1, zero))]
           /\ whitened_e3_mx' = [whitened_e3_mx EXCEPT ![w] = zero]
           /\ whitened_e2m1_mx' = [whitened_e2m1_mx EXCEPT ![w] = zero]
    /\ ops' = [ops EXCEPT ![w] = @ \o
                 <<[Op(w, "create", 0) EXCEPT !.store = @ + 1],
                   [Op(w, "init", KEY_WHITENED_E3) EXCEPT !.store = @ + 1],
                   [Op(w, "init", KEY_WHITENED_E2M1) EXCEPT !.store = @ + 1]>>]
    /\ pc' = [pc EXCEPT ![w] = "whiten_push"]
    /\ UNCHANGED <<args, docs_m1, m1_mx, prod_e2x_mx, results, start_end>>

\* lines 166-172
whiten_m3_dist_Push(w) ==
    /\ pc[w] = "whiten_push"
    /\ LET range == nth(equal_partitions(n_docs, args.n_partitions), kv_rank(w), None)
       IN  IF range = None
           THEN Raise(w, "TypeError")
           ELSE LET curr_partition == pload(args.docs, range[1], range[2])
                    contrib_e3 == contrib_whiten_e3(curr_partition, args.mat, n_docs)
                    contrib_e2m1 == contrib_whiten_e2m1(curr_partition, docs_m1[w],
                                                        args.mat, n_docs)
                IN  /\ stores' = [stores EXCEPT ![w][kvstore(w)] =
                          kv_push(kv_push(@, KEY_WHITENED_E3, contrib_e3),
                                  KEY_WHITENED_E2M1, contrib_e2m1)]
                    /\ ops' = [ops EXCEPT ![w] = @ \o <<Op(w, "push", KEY_WHITENED_E3),
                                                       Op(w, "push", KEY_WHITENED_E2M1)>>]
                    /\ pc' = [pc EXCEPT ![w] = "whiten_pull"]
                    /\ start_end' = [start_end EXCEPT ![w] = range]
                    /\ UNCHANGED <<docs_m1, m1_mx, prod_e2x_mx, whitened_e3_mx,
                                   whitened_e2m1_mx, results>>
    /\ UNCHANGED args

\* pulls that go through only while every worker stands at the pull
whiten_m3_dist_Pull_barrier(w) ==
    /\ \A v \in Workers : pc[v] = "whiten_pull"
    /\ whitened_e3_mx' = [whitened_e3_mx EXCEPT ![w] =
                             kv_pull(stores[w][kvstore(w)], KEY_WHITENED_E3)]
    /\ whitened_e2m1_mx' = [whitened_e2m1_mx EXCEPT ![w] =
                               kv_pull(stores[w][kvstore(w)], KEY_WHITENED_E2M1)]
    /\ ops' = [ops EXCEPT ![w] = @ \o <<Op(w, "pull", KEY_WHITENED_E3),
                                       Op(w, "pull", KEY_WHITENED_E2M1)>>]
    /\ pc' = [pc EXCEPT ![w] = "whiten_close"]
    /\ UNCHANGED <<args, stores, docs_m1, m1_mx, prod_e2x_mx, results, start_end>>

\* lines 175-176
whiten_m3_dist_Pull(w) ==
    /\ pc[w] = "whiten_pull"
    /\ whitened_e3_mx' = [whitened_e3_mx EXCEPT ![w] =
                             kv_pull(stores[w][kvstore(w)], KEY_WHITENED_E3)]
    /\ whitened_e2m1_mx' = [whitened_e2m1_mx EXCEPT ![w] =
                               kv_pull(stores[w][kvstore(w)], KEY_WHITENED_E2M1)]
    /\ ops' = [ops EXCEPT ![w] = @ \o <<Op(w, "pull", KEY_WHITENED_E3),
                                       Op(w, "pull", KEY_WHITENED_E2M1)>>]
    /\ pc' = [pc EXCEPT ![w] = "whiten_close"]
    /\ UNCHANGED <<args, stores, docs_m1, m1_mx, prod_e2x_mx, results, start_end>>

\* line 177
whiten_m3_dist_Close(w) ==
    /\ pc[w] = "whiten_close"
    /\ stores' = [stores EXCEPT ![w][kvstore(w)] = kv_close(@)]
    /\ ops' = [ops EXCEPT ![w] = Append(@, Op(w, "close", 0))]
    /\ pc' = [pc EXCEPT ![w] = "whiten_return"]
    /\ UNCHANGED <<args, docs_m1, m1_mx, prod_e2x_mx, whitened_e3_mx, whitened_e2m1_mx,
                   results, start_end>>

\* lines 179-180
whiten_m3_dist_Return(w) ==
    /\ pc[w] = "whiten_return"
    /\ Finish(w, "ok", whiten_m3_adjust(whitened_e3_mx[w], whitened_e2m1_mx[w],
                                        docs_m1[w], args.mat, args.alpha0))
    /\ UNCHANGED <<args, stores, ops>>

\* ------------------------------------------------------------------- spec
Next ==
    \E w \in Workers :
        \/ moment1_dist_Check(w)
        \/ moment1_dist_InitKVStore(w)
        \/ moment1_dist_Push(w)
        \/ moment1_dist_Pull(w)
        \/ moment1_dist_Close(w)
        \/ prod_m2_x_dist_Check(w)
        \/ prod_m2_x_dist_InitKVStore(w)
        \/ prod_m2_x_dist_Push(w)
        \/ prod_m2_x_dist_Pull(w)
        \/ prod_m2_x_dist_Close(w)
        \/ prod_m2_x_dist_Return(w)
        \/ whiten_m3_dist_Check(w)
        \/ whiten_m3_dist_InitKVStore(w)
        \/ whiten_m3_dist_Push(w)
        \/ whiten_m3_dist_Pull(w)
        \/ whiten_m3_dist_Close(w)
        \/ whiten_m3_dist_Return(w)

Spec == Init /\ [][Next]_vars

\* the steps of worker process w
Step(w) ==
    \/ moment1_dist_Check(w)
    \/ moment1_dist_InitKVStore(w)
    \/ moment1_dist_Push(w)
    \/ moment1_dist_Pull(w)
    \/ moment1_dist_Close(w)
    \/ prod_m2_x_dist_Check(w)
    \/ prod_m2_x_dist_InitKVStore(w)
    \/ prod_m2_x_dist_Push(w)
    \/ prod_m2_x_dist_Pull(w)
    \/ prod_m2_x_dist_Close(w)
    \/ prod_m2_x_dist_Return(w)
    \/ whiten_m3_dist_Check(w)
    \/ whiten_m3_dist_InitKVStore(w)
    \/ whiten_m3_dist_Push(w)
    \/ whiten_m3_dist_Pull(w)
    \/ whiten_m3_dist_Close(w)
    \/ whiten_m3_dist_Return(w)

\* every worker is a process of its own that keeps running
FairSpec == Spec /\ \A w \in Workers : WF_vars(Step(w))

\* ================================================================== claims
Keys == {KEY_M1, KEY_PROD_M2X, KEY_WHITENED_E3, KEY_WHITENED_E2M1}
Orchestrated == {"prod_m2_x_dist", "whiten_m3_dist"}

\* worker w has issued operation o on key in its call number c
Issued(w, o, key, c) ==
    \E i \in DOMAIN ops[w] : ops[w][i].op = o /\ ops[w][i].key = key /\ ops[w][i].call = c

Returned(w, c) == c <= Len(results[w]) /\ results[w][c].kind = "ok"

\* the ranges of the partitions of the collection
Ranges == equal_partitions(n_docs, args.n_partitions)
PartitionOf(i) == pload(args.docs, Ranges[i][1], Ranges[i][2])

\* the first moment reduced over ALL partitions
GlobalM1 ==
    [j \in 1..vocab_size |->
        RSum([i \in 1..Len(Ranges) |-> contrib_m1(PartitionOf(i), n_docs)[j]])]

\* the second-moment product reduced over ALL partitions
GlobalProdE2X ==
    [i \in 1..vocab_size |-> [j \in 1..args.mat.shape[2] |->
        RSum([q \in 1..Len(Ranges) |->
                contrib_prod_e2_x(PartitionOf(q), args.mat, n_docs)[i][j]])]]

\* the first moment of a run with n_partitions = 1
SinglePartitionM1 == contrib_m1(pload(args.docs, 0, n_docs), n_docs)

\* C1: for 1 <= n_partitions <= n_docs, what moment1_dist returns is the sum
\* over all partitions of the contributions, which is what a run with
\* n_partitions = 1 returns.
C1_PartitionedEqualsWhole ==
    args.func = "moment1_dist" =>
        \A w \in Workers : \A c \in 1..Len(results[w]) :
            results[w][c].kind = "ok" =>
                /\ results[w][c].val = GlobalM1
                /\ results[w][c].val = SinglePartitionM1

\* C2: a pull on a key has returned at a worker only if every worker of the
\* invocation has pushed to that key.
C2_PullAfterAllPushes ==
    \A v \in Workers : \A i \in DOMAIN ops[v] :
        ops[v][i].op = "pull" =>
            \A w \in Workers : Issued(w, "push", ops[v][i].key, ops[v][i].call)

\* C3: the workers that complete the same invocation get the same result.
C3_SameResultAtEveryWorker ==
    \A v, w \in Workers : \A c \in Calls :
        (c <= Len(results[v]) /\ c <= Len(results[w])) => results[v][c] = results[w][c]

C3_Witness ==
    /\ args.func = "whiten_m3_dist" /\ args.docs_m1 = None /\ args.n_partitions >= 2
    /\ \A w \in Workers : Returned(w, 1)

\* C4: a call with n_partitions < 1 or n_partitions > n_docs performs no store
\* operation.
C4_PartitionCountRejectedFirst ==
    (args.n_partitions < 1 \/ args.n_partitions > n_docs) =>
        \A w \in Workers : ops[w] = <<>> /\ stores[w] = <<>>

BadMomentArgs ==
    \/ args.alpha0 <= 0
    \/ args.mat.shape[1] # vocab_size
    \/ args.mat.shape[2] < 1
    \/ (args.docs_m1 # None /\ Len(args.docs_m1) # vocab_size)

\* C5: prod_m2_x_dist and whiten_m3_dist called with alpha0 <= 0, a matrix of
\* the wrong first dimension, k < 1 or a first moment of the wrong length
\* fail with no store created and no key initialised, pushed or pulled, the
\* first-moment scope included.
C5_BadArgsRejectedFirst ==
    (args.func \in Orchestrated /\ BadMomentArgs) =>
        \A w \in Workers :
            /\ ops[w] = <<>> /\ stores[w] = <<>>
            /\ pc[w] = "idle"
            /\ \A c \in 1..Len(results[w]) : results[w][c].kind = "AssertionError"

C5_Witness ==
    /\ args.func = "prod_m2_x_dist" /\ args.alpha0 <= 0 /\ args.docs_m1 = None
    /\ moment1_dist_asserts /\ prod_m2_x_dist_asserts_no_alpha0
    /\ \E w \in Workers : Len(results[w]) >= 1

IsPrefix(s, t) == Len(s) <= Len(t) /\ s = SubSeq(t, 1, Len(s))

\* what worker w did, in order, on key k of its store number s (close is an
\* operation on every key of the store)
KeyOps(w, s, k) ==
    LET sel == SelectSeq(ops[w], LAMBDA o : o.store = s /\ (o.key = k \/ o.op = "close"))
    IN  [i \in 1..Len(sel) |-> sel[i].op]

Lifecycle == <<"init", "push", "pull", "close">>

\* C6: on each key of each scope a worker issues one init, then one push, then
\* one pull, and then closes the scope; nothing follows the close, and a call
\* that returns has gone through all of it on every key of its scopes.
C6_OneInitPushPullThenClose ==
    \A w \in Workers :
        /\ \A s \in 1..Len(stores[w]) :
            /\ DOMAIN stores[w][s].data # {}
            /\ \A k \in DOMAIN stores[w][s].data : IsPrefix(KeyOps(w, s, k), Lifecycle)
            /\ stores[w][s].open = ~(\E i \in DOMAIN ops[w] :
                                        ops[w][i].store = s /\ ops[w][i].op = "close")
        /\ \A i \in DOMAIN ops[w] :
            /\ ops[w][i].store \in 1..Len(stores[w])
            /\ ops[w][i].op \in {"init", "push", "pull"} =>
                   ops[w][i].key \in DOMAIN stores[w][ops[w][i].store].data
        /\ \A c \in 1..Len(results[w]) :
            Returned(w, c) =>
                /\ \E i \in DOMAIN ops[w] : ops[w][i].call = c
                /\ \A i \in DOMAIN ops[w] :
                    ops[w][i].call = c =>
                        \A k \in DOMAIN stores[w][ops[w][i].store].data :
                            KeyOps(w, ops[w][i].store, k) = Lifecycle

C6_Witness ==
    /\ args.func = "whiten_m3_dist" /\ args.docs_m1 = None
    /\ \E w \in Workers : Returned(w, 1) /\ Len(stores[w]) = 2

\* the keys worker v is about to pull
PullKeys(v) ==
    CASE pc[v] = "m1_pull" -> {KEY_M1}
      [] pc[v] = "prod_pull" -> {KEY_PROD_M2X}
      [] pc[v] = "whiten_pull" -> {KEY_WHITENED_E3, KEY_WHITENED_E2M1}
      [] OTHER -> {}

\* C7: while some worker of the invocation has not pushed to a key, every
\* other worker that has reached the pull of that key stays there.
C7_BlockedWhileAPushIsMissing ==
    [][\A v, w \in Workers : \A k \in PullKeys(v) :
          ~Issued(w, "push", k, call(v)) => pc'[v] = pc[v]]_vars

\* the stores worker w created in its call number c and has not closed
OpenStores(w, c) ==
    {s \in 1..Len(stores[w]) :
        /\ stores[w][s].open
        /\ \E i \in DOMAIN ops[w] :
            ops[w][i].op = "create" /\ ops[w][i].store = s /\ ops[w][i].call = c}

\* C8: no call chain has two scopes open; within a call every operation on
\* the first-moment key precedes every operation on a later key; and when
\* no first moment is supplied, the scope of the later keys is created only
\* after the first-moment scope of the same call was pushed, pulled and closed.
C8_ScopesOneAfterTheOther ==
    \A w \in Workers :
        /\ \A c \in Calls : Cardinality(OpenStores(w, c)) <= 1
        /\ \A i, j \in DOMAIN ops[w] :
            (/\ ops[w][i].call = ops[w][j].call
             /\ ops[w][i].key = KEY_M1
             /\ ops[w][j].key \in Keys \ {KEY_M1}) => i < j
        /\ (args.func \in Orchestrated /\ args.docs_m1 = None) =>
            \A j \in DOMAIN ops[w] :
                (ops[w][j].op = "create"
                 /\ KEY_M1 \notin DOMAIN stores[w][ops[w][j].store].data) =>
                    \E i \in 1..(j - 1) :
                        /\ ops[w][i].op = "close" /\ ops[w][i].call = ops[w][j].call
                        /\ KEY_M1 \in DOMAIN stores[w][ops[w][i].store].data
                        /\ ~stores[w][ops[w][i].store].open
                        /\ KeyOps(w, ops[w][i].store, KEY_M1) = Lifecycle

C8_Witness ==
    /\ args.func = "whiten_m3_dist" /\ args.docs_m1 = None
    /\ \E w \in Workers : pc[w] = "whiten_pull" /\ Len(stores[w]) = 2

\* the all-zero tensor registered under key k
ZeroOf(k) ==
    IF k = KEY_M1 THEN zeros1(vocab_size)
    ELSE IF k = KEY_PROD_M2X THEN zeros2(vocab_size, args.mat.shape[2])
    ELSE zeros2(args.mat.shape[2], args.mat.shape[2] * args.mat.shape[2])

\* C9: the second of two calls with the same arguments ends as the first did,
\* and the accumulators of a call hold zeros until that call pushes.
C9_SecondCallAsTheFirst ==
    \A w \in Workers :
        /\ Len(results[w]) >= 2 => results[w][2] = results[w][1]
        /\ pc[w] \in {"m1_push", "prod_push", "whiten_push"} =>
            \A k \in DOMAIN stores[w][kvstore(w)].data :
                stores[w][kvstore(w)].data[k] = ZeroOf(k)

C9_Witness ==
    /\ args.func = "whiten_m3_dist" /\ args.docs_m1 = None /\ args.n_partitions >= 2
    /\ \E w \in Workers : Returned(w, 1) /\ Returned(w, 2)

\* C10: prod_m2_x_dist returns R - alpha0 / (alpha0 + 1) * outer(m1, m1.X) with
\* R the product reduced over all partitions and m1 the global first moment.
C10_AdjustedGlobalProduct ==
    args.func = "prod_m2_x_dist" =>
        \A w \in Workers : \A c \in 1..Len(results[w]) :
            results[w][c].kind = "ok" =>
                results[w][c].val =
                    prod_m2_x_adjust(GlobalProdE2X,
                                     IF args.docs_m1 = None THEN GlobalM1 ELSE args.docs_m1,
                                     args.mat, args.alpha0)

\* the first moment the later moments are to be computed with
GlobalOrSuppliedM1 == IF args.docs_m1 = None THEN GlobalM1 ELSE args.docs_m1

\* the whitened E3 term reduced over ALL partitions
GlobalWhitenE3 ==
    LET k == args.mat.shape[2]
    IN  [i \in 1..k |-> [c \in 1..(k * k) |->
            RSum([q \in 1..Len(Ranges) |->
                    contrib_whiten_e3(PartitionOf(q), args.mat, n_docs)[i][c]])]]

\* the whitened E2-times-M1 term reduced over ALL partitions
GlobalWhitenE2M1 ==
    LET k == args.mat.shape[2]
    IN  [i \in 1..k |-> [c \in 1..(k * k) |->
            RSum([q \in 1..Len(Ranges) |->
                    contrib_whiten_e2m1(PartitionOf(q), GlobalOrSuppliedM1,
                                        args.mat, n_docs)[i][c]])]]

\* C11: in whiten_m3_dist the value pulled for each of the two keys is the sum
\* over all workers of the contributions to that key alone, both are pulled
\* before the correction, and the correction is applied once to them.
C11_TwoReducedAccumulators ==
    args.func = "whiten_m3_dist" =>
        \A w \in Workers :
            /\ pc[w] \in {"whiten_close", "whiten_return"} =>
                /\ whitened_e3_mx[w] = GlobalWhitenE3
                /\ whitened_e2m1_mx[w] = GlobalWhitenE2M1
            /\ \A c \in 1..Len(results[w]) :
                Returned(w, c) =>
                    results[w][c].val =
                        whiten_m3_adjust(GlobalWhitenE3, GlobalWhitenE2M1,
                                         GlobalOrSuppliedM1, args.mat, args.alpha0)

\* C12: with as many workers as partitions, once every worker has loaded its
\* partition each partition has been loaded by exactly one worker.
C12_EachPartitionByOneWorker ==
    (args.n_partitions = NWorkers /\ \A w \in Workers : start_end[w] # None) =>
        \A i \in 1..Len(Ranges) :
            Cardinality({w \in Workers : start_end[w] = Ranges[i]}) = 1

\* worker w holds the value it pulled for key k
HasPulled(w, k) ==
    CASE k = KEY_M1 -> pc[w] = "m1_close"
      [] k = KEY_PROD_M2X -> pc[w] \in {"prod_close", "prod_return"}
      [] OTHER -> pc[w] \in {"whiten_close", "whiten_return"}

\* the out buffer of key k at worker w
PulledValue(w, k) ==
    CASE k = KEY_M1 -> m1_mx[w]
      [] k = KEY_PROD_M2X -> prod_e2x_mx[w]
      [] k = KEY_WHITENED_E3 -> whitened_e3_mx[w]
      [] OTHER -> whitened_e2m1_mx[w]

AtCorrection(w) == pc[w] \in {"prod_return", "whiten_return"}

\* C14 as stated: the correction is applied before the scope is closed, so a
\* worker that has yet to apply it still has its scope open.
C14_CorrectedBeforeClosed ==
    \A w \in Workers : AtCorrection(w) => stores[w][kvstore(w)].open

\* C14 as amended: when the correction is applied every key of the scope has
\* been pulled and the scope is closed already (REDUCED -> CLOSED -> CORRECTED);
\* the close is the last store operation of a call that returns.
C14_CorrectedAfterPullAndClose ==
    \A w \in Workers :
        /\ AtCorrection(w) =>
            /\ ~stores[w][kvstore(w)].open
            /\ \A k \in DOMAIN stores[w][kvstore(w)].data :
                /\ KeyOps(w, kvstore(w), k) = Lifecycle
                /\ PulledValue(w, k) = stores[w][kvstore(w)].data[k]
            /\ Len(results[w]) < call(w)
        /\ pc[w] \in {"prod_close", "whiten_close"} => stores[w][kvstore(w)].open
        /\ (args.func \in Orchestrated /\ pc[w] = "idle") =>
            \A c \in 1..Len(results[w]) :
                Returned(w, c) =>
                    \E i \in DOMAIN ops[w] :
                        /\ ops[w][i].call = c /\ ops[w][i].op = "close"
                        /\ \A j \in DOMAIN ops[w] : ops[w][j].call = c => j <= i

C14_Witness ==
    /\ args.func = "whiten_m3_dist"
    /\ \E w \in Workers : AtCorrection(w)

\* worker w is in the first-moment orchestration
InMoment1(w) == pc[w] \in {"m1_check", "m1_init", "m1_push", "m1_pull", "m1_close"}

\* worker w is in the part of prod_m2_x_dist / whiten_m3_dist after line 92 / 156
InLaterMoment(w) ==
    pc[w] \in {"prod_init", "prod_push", "prod_pull", "prod_close", "prod_return",
               "whiten_init", "whiten_push", "whiten_pull", "whiten_close", "whiten_return"}

\* the stores worker w created in its call number c
StoresOf(w, c) ==
    {s \in 1..Len(stores[w]) :
        \E i \in DOMAIN ops[w] :
            ops[w][i].op = "create" /\ ops[w][i].store = s /\ ops[w][i].call = c}

\* C15: with a supplied first moment prod_m2_x_dist and whiten_m3_dist never
\* touch KEY_M1 and use the supplied vector in the E2-times-M1 contribution
\* and in the correction; without one they run the first-moment orchestration
\* before anything else.
C15_SuppliedFirstMomentUsed ==
    args.func \in Orchestrated =>
        \A w \in Workers :
            /\ args.docs_m1 # None =>
                /\ ~InMoment1(w)
                /\ \A i \in DOMAIN ops[w] : ops[w][i].key # KEY_M1
                /\ \A s \in 1..Len(stores[w]) : KEY_M1 \notin DOMAIN stores[w][s].data
                /\ InLaterMoment(w) => docs_m1[w] = args.docs_m1
                /\ pc[w] \in {"whiten_pull", "whiten_close", "whiten_return"} =>
                       stores[w][kvstore(w)].data[KEY_WHITENED_E2M1] =
                           contrib_whiten_e2m1(
                               pload(args.docs, start_end[w][1], start_end[w][2]),
                               args.docs_m1, args.mat, n_docs)
                /\ \A c \in 1..Len(results[w]) : \A s \in StoresOf(w, c) :
                       Returned(w, c) =>
                           results[w][c].val =
                               IF args.func = "prod_m2_x_dist"
                               THEN prod_m2_x_adjust(stores[w][s].data[KEY_PROD_M2X],
                                                     args.docs_m1, args.mat, args.alpha0)
                               ELSE whiten_m3_adjust(stores[w][s].data[KEY_WHITENED_E3],
                                                     stores[w][s].data[KEY_WHITENED_E2M1],
                                                     args.docs_m1, args.mat, args.alpha0)
            /\ args.docs_m1 = None =>
                /\ InLaterMoment(w) =>
                       /\ Issued(w, "push", KEY_M1, call(w))
                       /\ Issued(w, "pull", KEY_M1, call(w))
                /\ \A c \in 1..Len(results[w]) :
                       Returned(w, c) => Issued(w, "pull", KEY_M1, c)

C15_Witness ==
    /\ args.func = "whiten_m3_dist" /\ args.docs_m1 # None /\ args.n_partitions >= 2
    /\ \E w \in Workers : Returned(w, 1)

\* C16: when a call has ended, by a return or by an exception, the worker has no
\* store left open and no key left initialised but never pushed.
C16_NoScopeLeftOpen ==
    \A w \in Workers :
        pc[w] = "idle" =>
            \A s \in 1..Len(stores[w]) :
                /\ ~stores[w][s].open
                /\ \A k \in DOMAIN stores[w][s].data :
                    \E i \in DOMAIN ops[w] :
                        ops[w][i].store = s /\ ops[w][i].key = k /\ ops[w][i].op = "push"

\* the arguments are valid and every worker has a partition
ValidCall ==
    /\ moment1_dist_asserts
    /\ args.func = "prod_m2_x_dist" => prod_m2_x_dist_asserts
    /\ args.func = "whiten_m3_dist" => whiten_m3_dist_asserts
    /\ \A w \in Workers : kv_rank(w) < args.n_partitions

\* worker w has returned from all its calls with every store closed
AllReturned(w) ==
    /\ pc[w] = "idle"
    /\ \A c \in Calls : Returned(w, c)
    /\ \A s \in 1..Len(stores[w]) : ~stores[w][s].open

\* C17: with valid arguments and a partition for every worker, under fair
\* scheduling every worker eventually has closed its scopes and returned.
C17_EveryWorkerReturns == <>(ValidCall => \A w \in Workers : AllReturned(w))

C17_Witness ==
    /\ ValidCall /\ args.func = "whiten_m3_dist" /\ args.docs_m1 = None
    /\ args.n_partitions >= 2
    /\ \A w \in Workers : AllReturned(w)

====
